---- MODULE Spec2Model ----
(***************************************************************************)
(* Model of the financial report validation pipeline of src/app.py: the    *)
(* compliance-score heuristic of the four agents, the agents' validate     *)
(* methods, and the "Start Validation" run of main() with its per-agent    *)
(* try/except, progress bar and dashboard metrics.                         *)
(*                                                                         *)
(* A text is a sequence of pieces; Chars(text) is the character string the *)
(* program sees (the concatenation of the pieces' characters), so that     *)
(* Python's substring test `indicator in analysis_text.lower()` is         *)
(* modelled character by character.                                        *)
(***************************************************************************)
EXTENDS Integers, Sequences, FiniteSets, TLC

VARIABLES
    \* ---- the "Start Validation" run of main() ----
    pc,                 \* position in main(): "idle", "loop", "done"
    financial_text,     \* text extracted from the uploaded PDF
    agents,             \* list built at lines 491-499: <<agent_name, ...>>
    i,                  \* number of loop iterations finished (enumerate index)
    validation_results, \* list of result dicts (line 488, 518)
    status_text,        \* text of the status placeholder, as a tuple of parts
    progress_bar,       \* sequence of values passed to progress_bar.progress
    errors,             \* sequence of st.error reports (line 521)
    completions,        \* call log of the completion client (chain.run)
    avg_score,          \* "Overall Compliance": <<>> if not shown, else <<sum / len>>
    agents_used,        \* "Agents Used": <<>> if not shown, else <<len(results)>>
    issues_found,       \* "Issues Found": <<>> if not shown, else <<count>>
    clock,              \* datetime.now(): ticks once per validate call
    \* ---- one call of _calculate_compliance_score ----
    analysis_text,      \* the argument
    positive_count,     \* local of the call, NoValue before the call
    negative_count,     \* local of the call, NoValue before the call
    score,              \* the returned value, NoValue before the call
    returned            \* TRUE once the call has returned

vars == <<pc, financial_text, agents, i, validation_results, status_text,
          progress_bar, errors, completions, avg_score, agents_used,
          issues_found, clock, analysis_text, positive_count, negative_count,
          score, returned>>

runVars == <<pc, financial_text, agents, i, validation_results, status_text,
             progress_bar, errors, completions, avg_score, agents_used,
             issues_found, clock>>

scoreVars == <<analysis_text, positive_count, negative_count, score,
               returned>>

NoValue == "NoValue"

\* Longest analysis text, in pieces, given to the score heuristic.
MaxTextLen == 2

(***************************************************************************)
(* Texts                                                                   *)
(***************************************************************************)
Pieces == {"compliant", "adequate", "proper", "correct", "complete", "missing", "error", "in", "non-", " ", "Compliant", "MISSING", "compliant x5", "all positive", "missing x5", "missing error x5", "error missing x5",
           "all negative"}

\* The characters of a piece.
PieceChars(p) ==
    CASE
       p = "compliant" -> <<"c","o","m","p","l","i","a","n","t">>
    [] p = "adequate" -> <<"a","d","e","q","u","a","t","e">>
    [] p = "proper" -> <<"p","r","o","p","e","r">>
    [] p = "correct" -> <<"c","o","r","r","e","c","t">>
    [] p = "complete" -> <<"c","o","m","p","l","e","t","e">>
    [] p = "missing" -> <<"m","i","s","s","i","n","g">>
    [] p = "error" -> <<"e","r","r","o","r">>
    [] p = "in" -> <<"i","n">>
    [] p = "non-" -> <<"n","o","n","-">>
    [] p = " " -> <<" ">>
    [] p = "Compliant" -> <<"C","o","m","p","l","i","a","n","t">>
    [] p = "MISSING" -> <<"M","I","S","S","I","N","G">>
    [] p = "compliant x5" -> <<"c","o","m","p","l","i","a","n","t"," ","c","o","m","p","l","i","a","n","t"," ","c","o","m","p","l","i","a","n","t"," ","c","o","m","p","l","i","a","n","t"," ","c","o","m","p","l","i","a","n","t"," ">>
    [] p = "all positive" -> <<"c","o","m","p","l","i","a","n","t"," ","a","d","e","q","u","a","t","e"," ","p","r","o","p","e","r"," ","c","o","r","r","e","c","t"," ","c","o","m","p","l","e","t","e"," ">>
    [] p = "missing x5" -> <<"m","i","s","s","i","n","g"," ","m","i","s","s","i","n","g"," ","m","i","s","s","i","n","g"," ","m","i","s","s","i","n","g"," ","m","i","s","s","i","n","g"," ">>
    [] p = "missing error x5" -> <<"m","i","s","s","i","n","g"," ","e","r","r","o","r"," ","m","i","s","s","i","n","g"," ","e","r","r","o","r"," ","m","i","s","s","i","n","g"," ">>
    [] p = "error missing x5" -> <<"e","r","r","o","r"," ","m","i","s","s","i","n","g"," ","e","r","r","o","r"," ","m","i","s","s","i","n","g"," ","e","r","r","o","r"," ">>
    [] p = "all negative" -> <<"m","i","s","s","i","n","g"," ","i","n","c","o","m","p","l","e","t","e"," ","n","o","n","-","c","o","m","p","l","i","a","n","t"," ","i","n","a","d","e","q","u","a","t","e"," ","e","r","r","o","r"," ">>

RECURSIVE Chars(_)
Chars(text) ==
    IF text = <<>> THEN <<>> ELSE PieceChars(Head(text)) \o Chars(Tail(text))

\* str.lower() on one character (ASCII letters; the others are unchanged).
LowerChar(c) ==
    CASE
       c = "A" -> "a"
    [] c = "B" -> "b"
    [] c = "C" -> "c"
    [] c = "D" -> "d"
    [] c = "E" -> "e"
    [] c = "F" -> "f"
    [] c = "G" -> "g"
    [] c = "H" -> "h"
    [] c = "I" -> "i"
    [] c = "J" -> "j"
    [] c = "K" -> "k"
    [] c = "L" -> "l"
    [] c = "M" -> "m"
    [] c = "N" -> "n"
    [] c = "O" -> "o"
    [] c = "P" -> "p"
    [] c = "Q" -> "q"
    [] c = "R" -> "r"
    [] c = "S" -> "s"
    [] c = "T" -> "t"
    [] c = "U" -> "u"
    [] c = "V" -> "v"
    [] c = "W" -> "w"
    [] c = "X" -> "x"
    [] c = "Y" -> "y"
    [] c = "Z" -> "z"
    [] OTHER -> c

\* Variant: the text is not case-folded.
NoLower(s) == s

\* str.lower()
Lower(s) == [k \in 1..Len(s) |-> LowerChar(s[k])]

\* s[k+1 .. k+Len(needle)] = needle
MatchesAt(needle, s, k) ==
    \A j \in 1..Len(needle) : s[k + j] = needle[j]

\* Variant: s.startswith(needle).
ContainsPrefixOnly(needle, s) ==
    Len(needle) <= Len(s) /\ MatchesAt(needle, s, 0)

\* Python's `needle in s` for strings.
Contains(needle, s) ==
    \E k \in 0..(Len(s) - Len(needle)) : MatchesAt(needle, s, k)

(***************************************************************************)
(* _calculate_compliance_score (identical in the four agent classes)       *)
(***************************************************************************)
positive_indicators ==
    << <<"c","o","m","p","l","i","a","n","t">>,
       <<"a","d","e","q","u","a","t","e">>,
       <<"p","r","o","p","e","r">>,
       <<"c","o","r","r","e","c","t">>,
       <<"c","o","m","p","l","e","t","e">> >>

negative_indicators ==
    << <<"m","i","s","s","i","n","g">>,
       <<"i","n","c","o","m","p","l","e","t","e">>,
       <<"n","o","n","-","c","o","m","p","l","i","a","n","t">>,
       <<"i","n","a","d","e","q","u","a","t","e">>,
       <<"e","r","r","o","r">> >>

base_score == 50

\* Variant: sum(text.lower().count(indicator) for indicator in indicators)
RECURSIVE CountOccurrences(_, _)
CountOccurrences(indicators, text) ==
    IF indicators = <<>> THEN 0
    ELSE Cardinality({k \in 0..(Len(Chars(text)) - Len(Head(indicators))) :
                        MatchesAt(Head(indicators), Lower(Chars(text)), k)})
         + CountOccurrences(Tail(indicators), text)

\* sum(1 for indicator in indicators if indicator in analysis_text.lower())
RECURSIVE CountPresent(_, _)
CountPresent(indicators, text) ==
    IF indicators = <<>> THEN 0
    ELSE (IF Contains(Head(indicators), Lower(Chars(text))) THEN 1 ELSE 0)
         + CountPresent(Tail(indicators), text)

Max(a, b) == IF a >= b THEN a ELSE b
Min(a, b) == IF a <= b THEN a ELSE b

positive_count_of(text) == CountPresent(positive_indicators, text)
negative_count_of(text) == CountPresent(negative_indicators, text)

\* Variant: every occurrence counted, clamp kept.
calculate_compliance_score_counting(text) ==
    Max(0, Min(100, base_score
                    + (CountOccurrences(positive_indicators, text) * 10)
                    - (CountOccurrences(negative_indicators, text) * 15)))

\* Variant: every occurrence counted and the raw score returned.
calculate_compliance_score_raw(text) ==
    base_score + (CountOccurrences(positive_indicators, text) * 10)
               - (CountOccurrences(negative_indicators, text) * 15)

calculate_compliance_score(text) ==
    LET score_ == base_score + (positive_count_of(text) * 10)
                             - (negative_count_of(text) * 15)
    IN  Max(0, Min(100, score_))

(***************************************************************************)
(* The agents' validate methods.  `now` is datetime.now(); the arguments   *)
(* named *_result are what chain.run returned.                             *)
(***************************************************************************)
ValidationPrompt(agent_class, text) ==
    [template |-> "validation", agent |-> agent_class, financial_text |-> text]

\* MetaPromptingAgent.self_reflection_prompt
self_reflection_prompt(validation_result) ==
    [template |-> "reflection", validation_result |-> validation_result]

\* Variant: the two analyses are stored under each other's key.
validate_balance_sheet_swapped(initial_result, final_result, now) ==
    [agent |-> "Balance Sheet",
     initial_analysis |-> final_result,
     refined_analysis |-> initial_result,
     compliance_score |-> calculate_compliance_score(final_result),
     timestamp |-> now]

\* Variant: the score is computed over the initial analysis.
validate_balance_sheet_scores_initial(initial_result, final_result, now) ==
    [agent |-> "Balance Sheet",
     initial_analysis |-> initial_result,
     refined_analysis |-> final_result,
     compliance_score |-> calculate_compliance_score(initial_result),
     timestamp |-> now]

validate_balance_sheet(initial_result, final_result, now) ==
    [agent |-> "Balance Sheet",
     initial_analysis |-> initial_result,
     refined_analysis |-> final_result,
     compliance_score |-> calculate_compliance_score(final_result),
     timestamp |-> now]

validate_profit_loss(result, now) ==
    [agent |-> "Profit & Loss",
     analysis |-> result,
     compliance_score |-> calculate_compliance_score(result),
     timestamp |-> now]

validate_cash_flow(result, now) ==
    [agent |-> "Cash Flow",
     analysis |-> result,
     compliance_score |-> calculate_compliance_score(result),
     timestamp |-> now]

validate_notes(result, now) ==
    [agent |-> "Notes",
     analysis |-> result,
     compliance_score |-> calculate_compliance_score(result),
     timestamp |-> now]

(***************************************************************************)
(* Inputs of a run                                                         *)
(***************************************************************************)
\* What the sidebar's API-key field can hold.
ApiKeys == {"", "sk-key"}

\* What extract_text_from_pdf can return ("" on an extraction error).
Documents == {"", "statement"}

\* What the completion client can return.
LLMResponses ==
    { <<"all positive">>,                       \* scores 100
      <<"compliant", "adequate", "proper">>,    \* scores 80
      <<"Compliant">>,                          \* scores 60
      <<"in", "complete">>,                     \* scores 45
      <<"missing", " ", "error">> }             \* scores 20

\* What the completion client can raise.
Exceptions == {"APIError"}

Returned(agent_name, prompt, response) ==
    [agent_name |-> agent_name, prompt |-> prompt,
     outcome |-> "return", value |-> response]

Raised(agent_name, prompt, e) ==
    [agent_name |-> agent_name, prompt |-> prompt,
     outcome |-> "raise", value |-> e]

(***************************************************************************)
(* Initial state: the page is rendered, nothing has been validated.        *)
(***************************************************************************)
RunIdle ==
    /\ pc = "idle"
    /\ financial_text = ""
    /\ agents = <<>>
    /\ i = 0
    /\ validation_results = <<>>
    /\ status_text = <<>>
    /\ progress_bar = <<>>
    /\ errors = <<>>
    /\ completions = <<>>
    /\ avg_score = <<>>
    /\ agents_used = <<>>
    /\ issues_found = <<>>
    /\ clock = 0

Init ==
    /\ RunIdle
    /\ analysis_text = <<>>
    /\ positive_count = NoValue
    /\ negative_count = NoValue
    /\ score = NoValue
    /\ returned = FALSE

(***************************************************************************)
(* main(): the "Start Validation" button                                   *)
(***************************************************************************)
\* Variant: the Cash Flow agent is appended before the P&L agent.
AgentListSwapped(bs, pl, cf, nt) ==
    (IF bs THEN <<"Balance Sheet">> ELSE <<>>)
    \o (IF cf THEN <<"Cash Flow">> ELSE <<>>)
    \o (IF pl THEN <<"P&L">> ELSE <<>>)
    \o (IF nt THEN <<"Notes">> ELSE <<>>)

\* Lines 491-499: the agent list, in the order of the four `if`s.
AgentList(bs, pl, cf, nt) ==
    (IF bs THEN <<"Balance Sheet">> ELSE <<>>)
    \o (IF pl THEN <<"P&L">> ELSE <<>>)
    \o (IF cf THEN <<"Cash Flow">> ELSE <<>>)
    \o (IF nt THEN <<"Notes">> ELSE <<>>)

Fraction(num, den) == [num |-> num, den |-> den]

\* Lines 447-449, 485-503: the click, up to the first loop iteration.
StartValidation ==
    \E openai_api_key \in ApiKeys, text \in Documents,
       bs \in BOOLEAN, pl \in BOOLEAN, cf \in BOOLEAN, nt \in BOOLEAN :
        /\ pc = "idle"
        /\ openai_api_key # ""
        /\ text # ""
        /\ financial_text' = text
        /\ validation_results' = <<>>
        /\ agents' = AgentList(bs, pl, cf, nt)
        /\ progress_bar' = <<Fraction(0, 1)>>
        /\ status_text' = <<>>
        /\ i' = 0
        /\ pc' = "loop"
        /\ UNCHANGED <<errors, completions, avg_score, agents_used,
                       issues_found, clock>>
        /\ UNCHANGED scoreVars

\* Variant: the fraction is taken before the index is advanced.
ProgressValueOffByOne(index, total) == Fraction(index, total)

\* Line 523: (i + 1) / len(agents)
ProgressValue(index, total) == Fraction(index + 1, total)

\* Lines 506 and 523, common to every iteration of the loop.
IterationFrame(agent_name) ==
    /\ pc = "loop"
    /\ i < Len(agents)
    /\ agents[i + 1] = agent_name
    /\ status_text' = <<"Validating ", agent_name, "...">>
    /\ progress_bar' = Append(progress_bar, ProgressValue(i, Len(agents)))
    /\ i' = i + 1
    /\ UNCHANGED <<pc, financial_text, agents, avg_score, agents_used,
                   issues_found>>
    /\ UNCHANGED scoreVars

\* Variant: the append of line 518 sits after the try/except, so that a
\* failing agent appends the previous iteration's result again.
ReportErrorThenAppend(agent_name, e) ==
    /\ errors' = Append(errors, [agent_name |-> agent_name, error |-> e])
    /\ validation_results' =
          IF validation_results = <<>> THEN validation_results
          ELSE Append(validation_results,
                      validation_results[Len(validation_results)])
    /\ UNCHANGED clock

\* Line 521: the except branch.
ReportError(agent_name, e) ==
    /\ errors' = Append(errors, [agent_name |-> agent_name, error |-> e])
    /\ UNCHANGED <<validation_results, clock>>

\* Line 518 after a validate_* call that returned.
AppendResult(result) ==
    /\ validation_results' = Append(validation_results, result)
    /\ clock' = clock + 1
    /\ UNCHANGED errors

\* Variant: validate_balance_sheet catches the failure of the reflection
\* call and returns the initial analysis as a partial result.
ReflectionFailedKeepsInitial(agent_name, initial_result, e) ==
    /\ errors' = Append(errors, [agent_name |-> agent_name, error |-> e])
    /\ validation_results' =
          Append(validation_results,
                 validate_balance_sheet(initial_result, initial_result, clock))
    /\ UNCHANGED clock

\* Line 151 raises: nothing in validate_balance_sheet catches it, the local
\* initial_result is dropped and control reaches the except branch of main.
ReflectionFailed(agent_name, initial_result, e) ==
    ReportError(agent_name, e)

\* One iteration for the Balance Sheet agent (lines 509-510, 138-159).
ValidateBalanceSheet ==
    LET name == "Balance Sheet"
        prompt == ValidationPrompt("BalanceSheetAgent", financial_text)
    IN  /\ IterationFrame(name)
        /\ \/ \E e \in Exceptions :
                /\ completions' = Append(completions, Raised(name, prompt, e))
                /\ ReportError(name, e)
           \/ \E initial_result \in LLMResponses, e \in Exceptions :
                /\ completions' = completions \o
                      << Returned(name, prompt, initial_result),
                         Raised(name, self_reflection_prompt(initial_result), e) >>
                /\ ReflectionFailed(name, initial_result, e)
           \/ \E initial_result \in LLMResponses, final_result \in LLMResponses :
                /\ completions' = completions \o
                      << Returned(name, prompt, initial_result),
                         Returned(name, self_reflection_prompt(initial_result),
                                  final_result) >>
                /\ AppendResult(validate_balance_sheet(initial_result,
                                                       final_result, clock))

\* Lines 511-516: the elif chain for the single-pass agents.
CallValidate(agent_name, result, now) ==
    CASE agent_name = "P&L" -> validate_profit_loss(result, now)
      [] agent_name = "Cash Flow" -> validate_cash_flow(result, now)
      [] agent_name = "Notes" -> validate_notes(result, now)

\* One iteration for a single-pass agent.
SinglePass(name, agent_class) ==
    LET prompt == ValidationPrompt(agent_class, financial_text)
    IN  /\ IterationFrame(name)
        /\ \/ \E e \in Exceptions :
                /\ completions' = Append(completions, Raised(name, prompt, e))
                /\ ReportError(name, e)
           \/ \E result \in LLMResponses :
                /\ completions' = Append(completions,
                                         Returned(name, prompt, result))
                /\ AppendResult(CallValidate(name, result, clock))

\* Lines 511-512, 232-243.
ValidateProfitLoss == SinglePass("P&L", "ProfitLossAgent")

\* Lines 513-514, 312-323.
ValidateCashFlow == SinglePass("Cash Flow", "CashFlowAgent")

\* Lines 515-516, 395-406.
ValidateNotes == SinglePass("Notes", "NotesAgent")

\* sum(r.get('compliance_score', 0) for r in results)
RECURSIVE SumScores(_)
SumScores(results) ==
    IF results = <<>> THEN 0
    ELSE Head(results).compliance_score + SumScores(Tail(results))

\* sum(1 for r in results if r.get('compliance_score', 100) < 80)
RECURSIVE CountIssues(_)
CountIssues(results) ==
    IF results = <<>> THEN 0
    ELSE (IF Head(results).compliance_score < 80 THEN 1 ELSE 0)
         + CountIssues(Tail(results))

\* Variant: the sum is divided by the number of enabled agents.
AverageOverAgents(results) == Fraction(SumScores(results), Len(agents))

\* Line 532: true division, kept as the exact fraction sum / len.
Average(results) == Fraction(SumScores(results), Len(results))

\* Lines 525-540: the loop is over; status line and dashboard metrics.
ShowDashboard ==
    /\ pc = "loop"
    /\ i = Len(agents)
    /\ status_text' = <<"Validation complete!">>
    /\ IF validation_results # <<>>
       THEN /\ avg_score' = <<Average(validation_results)>>
            /\ agents_used' = <<Len(validation_results)>>
            /\ issues_found' = <<CountIssues(validation_results)>>
       ELSE UNCHANGED <<avg_score, agents_used, issues_found>>
    /\ pc' = "done"
    /\ UNCHANGED <<financial_text, agents, i, validation_results,
                   progress_bar, errors, completions, clock>>
    /\ UNCHANGED scoreVars

Next ==
    \/ StartValidation
    \/ ValidateBalanceSheet
    \/ ValidateProfitLoss
    \/ ValidateCashFlow
    \/ ValidateNotes
    \/ ShowDashboard

Spec == Init /\ [][Next]_vars

(***************************************************************************)
(* The score heuristic on its own: any text, one call.                     *)
(***************************************************************************)
Texts == UNION {[1..n -> Pieces] : n \in 0..MaxTextLen}

ScoreInit ==
    /\ RunIdle
    /\ analysis_text \in Texts
    /\ positive_count = NoValue
    /\ negative_count = NoValue
    /\ score = NoValue
    /\ returned = FALSE

\* Lines 161-172 (and the copies at 245-256, 325-335, 408-418).
CalculateComplianceScore ==
    /\ ~returned
    /\ returned' = TRUE
    /\ positive_count' = positive_count_of(analysis_text)
    /\ negative_count' = negative_count_of(analysis_text)
    /\ score' = calculate_compliance_score(analysis_text)
    /\ UNCHANGED analysis_text
    /\ UNCHANGED runVars

ScoreNext == CalculateComplianceScore

ScoreSpec == ScoreInit /\ [][ScoreNext]_vars

(***************************************************************************)
(* Reference notions used to state the properties.  They are written       *)
(* independently of Lower, Contains and CountPresent: the case-folded text *)
(* is obtained piece by piece, and occurrences are counted by position.    *)
(***************************************************************************)
FoldPiece(p) ==
    CASE p = "Compliant" -> "compliant"
      [] p = "MISSING" -> "missing"
      [] OTHER -> p

FoldedString(text) == Chars([k \in 1..Len(text) |-> FoldPiece(text[k])])

\* Start positions of `marker` in the folded text.
Positions(marker, text) ==
    LET s == FoldedString(text)
    IN  {k \in 0..(Len(s) - Len(marker)) :
            \A j \in 1..Len(marker) : s[k + j] = marker[j]}

\* Total number of occurrences of the markers of a list.
Occurrences(markers, text) ==
    Cardinality(UNION {{<<m, k>> : k \in Positions(markers[m], text)} :
                          m \in 1..Len(markers)})

\* Number of markers of a list that occur at least once.
DistinctPresent(markers, text) ==
    Cardinality({m \in 1..Len(markers) : Positions(markers[m], text) # {}})

Clamp(x, lo, hi) == IF x < lo THEN lo ELSE IF x > hi THEN hi ELSE x

IncompleteString == <<"i","n","c","o","m","p","l","e","t","e">>

(***************************************************************************)
(* Properties of the score heuristic (checked under ScoreSpec)             *)
(***************************************************************************)

\* C2: the score returned for any analysis text is an integer in [0,100],
\* and so is the compliance_score of every collected validation result.
Thm_C2_ScoreInRange ==
    /\ returned => score \in 0..100
    /\ \A k \in 1..Len(validation_results) :
          validation_results[k].compliance_score \in 0..100

\* C2 witness: a call has returned the top score for a text in which the
\* positive markers occur more than five times.
Wit_C2_ScoreInRange ==
    /\ returned
    /\ score = 100
    /\ Occurrences(positive_indicators, analysis_text) > 5

Wit_C5_TenNegative ==
    /\ returned
    /\ Occurrences(positive_indicators, analysis_text) = 0
    /\ Occurrences(negative_indicators, analysis_text) = 10
    /\ score = 20

(***************************************************************************)
(* Reference notions for the properties of a run                           *)
(***************************************************************************)
CanonicalOrder == <<"Balance Sheet", "P&L", "Cash Flow", "Notes">>

Rank(agent_name) == CHOOSE r \in 1..4 : CanonicalOrder[r] = agent_name

\* The "agent" key a result of the named agent carries.
ResultLabel(agent_name) ==
    IF agent_name = "P&L" THEN "Profit & Loss" ELSE agent_name

LabelRank(label) == CHOOSE r \in 1..4 : ResultLabel(CanonicalOrder[r]) = label

EnabledAgents == {agents[k] : k \in 1..Len(agents)}

\* Agents whose loop iteration is over.
ProcessedAgents == {agents[k] : k \in 1..i}

CallsOf(agent_name) ==
    {k \in 1..Len(completions) : completions[k].agent_name = agent_name}

\* Agents with a completion call that raised.
FailedAgents ==
    {completions[k].agent_name :
        k \in {j \in 1..Len(completions) : completions[j].outcome = "raise"}}

ResultsOf(agent_name) ==
    {k \in 1..Len(validation_results) :
        validation_results[k].agent = ResultLabel(agent_name)}

ErrorsOf(agent_name) ==
    {k \in 1..Len(errors) : errors[k].agent_name = agent_name}

Scores == [k \in 1..Len(validation_results) |->
              validation_results[k].compliance_score]

\* Sum of the collected scores, by index.
ScoreTotal ==
    LET partial[k \in 0..Len(validation_results)] ==
            IF k = 0 THEN 0 ELSE partial[k - 1] + Scores[k]
    IN  partial[Len(validation_results)]

(***************************************************************************)
(* Properties of a run (checked under Spec)                                *)
(***************************************************************************)

\* C1: failure isolation.  Whatever subset of the enabled agents fails, the
\* run goes on: every processed agent was invoked, a failure is reported for
\* each failing agent and no result is kept for it, every other processed
\* agent has exactly one result, and at the end the number of results is the
\* number of enabled agents minus the number of failed ones.
Thm_C1_FailureIsolation ==
    /\ pc = "loop" => ENABLED Next
    /\ Len(validation_results) + Len(errors) = i
    /\ \A name \in ProcessedAgents :
          /\ CallsOf(name) # {}
          /\ IF name \in FailedAgents
             THEN ResultsOf(name) = {} /\ Cardinality(ErrorsOf(name)) = 1
             ELSE Cardinality(ResultsOf(name)) = 1 /\ ErrorsOf(name) = {}
    /\ pc = "done" =>
          /\ ProcessedAgents = EnabledAgents
          /\ Len(errors) = Cardinality(FailedAgents)
          /\ Len(validation_results) =
                Cardinality(EnabledAgents) - Cardinality(FailedAgents)

\* C1 witness: four agents enabled, only the P&L agent failed, the two
\* agents after it were still invoked and three results were collected.
Wit_C1_OneOfFourFails ==
    /\ pc = "done"
    /\ Len(agents) = 4
    /\ FailedAgents = {"P&L"}
    /\ Len(errors) = 1
    /\ Len(validation_results) = 3
    /\ ResultsOf("Cash Flow") # {}
    /\ ResultsOf("Notes") # {}

\* C6 as stated: at the end of the run the aggregate score is the mean of
\* the collected scores and is 0 when no agent succeeded, and the issue count
\* is the number of collected results with a score below 80.
Orig_C6_Aggregate ==
    pc = "done" =>
        /\ Len(avg_score) = 1
        /\ IF validation_results = <<>>
           THEN avg_score[1].num = 0
           ELSE avg_score[1].num * Len(validation_results)
                   = ScoreTotal * avg_score[1].den
        /\ issues_found = <<Cardinality({k \in DOMAIN Scores : Scores[k] < 80})>>

\* C6 (amended): at the end of the run, if at least one agent succeeded, the
\* aggregate score is the arithmetic mean of the collected scores and the
\* issue count is the number of collected results with a score below 80; if
\* no agent succeeded, neither an aggregate score nor an issue count is
\* produced.
Thm_C6_Aggregate ==
    /\ pc # "done" => (avg_score = <<>> /\ issues_found = <<>> /\ agents_used = <<>>)
    /\ pc = "done" =>
          IF validation_results # <<>>
          THEN /\ Len(avg_score) = 1
               /\ avg_score[1].den > 0
               /\ avg_score[1].num * Len(validation_results)
                     = ScoreTotal * avg_score[1].den
               /\ issues_found =
                     <<Cardinality({k \in DOMAIN Scores : Scores[k] < 80})>>
               /\ agents_used = <<Len(validation_results)>>
          ELSE avg_score = <<>> /\ issues_found = <<>> /\ agents_used = <<>>

\* C6 witness: the scores 80, 60, 100 were collected while one of four
\* enabled agents failed; the mean is 240 / 3 = 80 and there is one issue.
Wit_C6_EightySixtyHundred ==
    /\ pc = "done"
    /\ Len(agents) = 4
    /\ Scores = <<80, 60, 100>>
    /\ avg_score = <<Fraction(240, 3)>>
    /\ issues_found = <<1>>

\* C7 as stated: a run started with no agent enabled makes no completion
\* call, reports a configuration error and never shows "Validation
\* complete!".
Orig_C7_ZeroAgentsFailFast ==
    (pc # "idle" /\ agents = <<>>) =>
        /\ completions = <<>>
        /\ status_text # <<"Validation complete!">>
        /\ pc = "done" => errors # <<>>

\* C8: a successful Balance Sheet validate makes exactly two completion
\* calls, the second with the reflection prompt built from the first one's
\* output, and its result carries the initial and the refined analysis; a
\* successful validate of another agent makes exactly one call and its result
\* carries a single analysis; no validate makes more than two calls.
Thm_C8_TwoPass ==
    /\ \A name \in EnabledAgents :
          Cardinality(CallsOf(name)) <= (IF name = "Balance Sheet" THEN 2 ELSE 1)
    /\ \A k \in 1..Len(validation_results) :
          LET r == validation_results[k]
              name == CHOOSE n \in EnabledAgents : ResultLabel(n) = r.agent
              calls == CallsOf(name)
              first == completions[CHOOSE c \in calls : \A d \in calls : c <= d]
              last == completions[CHOOSE c \in calls : \A d \in calls : c >= d]
          IN  /\ \A c \in calls : completions[c].outcome = "return"
              /\ IF r.agent = "Balance Sheet"
                 THEN /\ Cardinality(calls) = 2
                      /\ first.prompt.template = "validation"
                      /\ last.prompt = self_reflection_prompt(first.value)
                      /\ {"initial_analysis", "refined_analysis"} \subseteq DOMAIN r
                      /\ "analysis" \notin DOMAIN r
                      /\ r.initial_analysis = first.value
                      /\ r.refined_analysis = last.value
                 ELSE /\ Cardinality(calls) = 1
                      /\ first.prompt.template = "validation"
                      /\ "analysis" \in DOMAIN r
                      /\ DOMAIN r \cap {"initial_analysis", "refined_analysis"} = {}
                      /\ r.analysis = first.value

\* C8 witness: a Balance Sheet result whose two analyses differ and a Notes
\* result have been collected.
Wit_C8_TwoPass ==
    /\ pc = "done"
    /\ Cardinality(CallsOf("Balance Sheet")) = 2
    /\ Cardinality(CallsOf("Notes")) = 1
    /\ Len(validation_results) = 2
    /\ validation_results[1].agent = "Balance Sheet"
    /\ validation_results[1].initial_analysis # validation_results[1].refined_analysis
    /\ validation_results[2].agent = "Notes"

\* C9: agents are invoked, and their results appear, in the order Balance
\* Sheet, P&L, Cash Flow, Notes restricted to the enabled agents; each agent
\* is run at most once, so no two results carry the same agent.
Thm_C9_CanonicalOrder ==
    /\ \A j, k \in 1..Len(agents) : j < k => Rank(agents[j]) < Rank(agents[k])
    /\ \A j, k \in 1..Len(completions) :
          j < k => Rank(completions[j].agent_name) <= Rank(completions[k].agent_name)
    /\ \A j, k \in 1..Len(validation_results) :
          j < k => LabelRank(validation_results[j].agent)
                      < LabelRank(validation_results[k].agent)
    /\ \A k \in 1..Len(validation_results) :
          \E name \in ProcessedAgents : validation_results[k].agent = ResultLabel(name)
    /\ \A name \in EnabledAgents :
          Cardinality({c \in CallsOf(name) :
                          completions[c].prompt.template = "validation"}) <= 1

\* C9 witness: all four agents were enabled and succeeded.
Wit_C9_AllFour ==
    /\ pc = "done"
    /\ Len(validation_results) = 4
    /\ [k \in 1..4 |-> validation_results[k].agent]
          = <<"Balance Sheet", "Profit & Loss", "Cash Flow", "Notes">>

\* C10: a progress update is emitted after each enabled agent has finished,
\* whether it succeeded or failed, with the fraction agents processed /
\* agents enabled; the fractions never decrease and the last one is 1 once
\* the last enabled agent has been processed.
Thm_C10_Progress ==
    pc # "idle" =>
        /\ Len(progress_bar) = 1 + i
        /\ Len(progress_bar) = 1 + Len(validation_results) + Len(errors)
        /\ \A k \in 1..i :
              /\ progress_bar[k + 1].den = Len(agents)
              /\ progress_bar[k + 1].num = k
        /\ \A k \in 1..(Len(progress_bar) - 1) :
              progress_bar[k].num * progress_bar[k + 1].den
                 <= progress_bar[k + 1].num * progress_bar[k].den
        /\ (i = Len(agents) /\ agents # <<>>) =>
              progress_bar[Len(progress_bar)].num
                 = progress_bar[Len(progress_bar)].den

\* C10 witness: three agents were enabled, one of them failed, and the last
\* update is 3/3.
Wit_C10_Progress ==
    /\ pc = "done"
    /\ Len(agents) = 3
    /\ Len(errors) = 1
    /\ Len(progress_bar) = 4
    /\ progress_bar[4] = Fraction(3, 3)

\* C11: validate does not catch or mask a completion failure.  A call that
\* raises is the last call of its agent; the agent has no result, not even a
\* partial one, and the error reported for it is the exception the call
\* raised.  For Balance Sheet, a failure of the first call means that no
\* reflection call is made, and a failure of the reflection call discards the
\* initial analysis already obtained.
Thm_C11_FailurePropagates ==
    \A c \in 1..Len(completions) :
        completions[c].outcome = "raise" =>
            LET name == completions[c].agent_name
            IN  /\ \A d \in CallsOf(name) : d <= c
                /\ ResultsOf(name) = {}
                /\ name \in ProcessedAgents
                /\ \A k \in ErrorsOf(name) : errors[k].error = completions[c].value
                /\ ErrorsOf(name) # {}
                /\ completions[c].prompt.template = "validation" =>
                      Cardinality(CallsOf(name)) = 1
                /\ completions[c].prompt.template = "reflection" =>
                      /\ name = "Balance Sheet"
                      /\ Cardinality(CallsOf(name)) = 2
                      /\ completions[c - 1].outcome = "return"
                      /\ completions[c].prompt.validation_result
                            = completions[c - 1].value

\* C11 witness: the first Balance Sheet call returned, the reflection call
\* raised, no Balance Sheet result exists and the run went on to collect the
\* Notes result.
Wit_C11_ReflectionFails ==
    /\ pc = "done"
    /\ agents = <<"Balance Sheet", "Notes">>
    /\ Len(completions) = 3
    /\ completions[1].outcome = "return"
    /\ completions[2].outcome = "raise"
    /\ completions[2].prompt.template = "reflection"
    /\ ResultsOf("Balance Sheet") = {}
    /\ Len(validation_results) = 1
    /\ errors = <<[agent_name |-> "Balance Sheet", error |-> "APIError"]>>

\* The score of a text, stated from the markers present in it.
ReferenceScore(text) ==
    Clamp(50 + 10 * DistinctPresent(positive_indicators, text)
             - 15 * DistinctPresent(negative_indicators, text), 0, 100)

\* C12: the compliance score of a result is the score of its final analysis
\* text: of the refined analysis for Balance Sheet, whatever the initial
\* analysis was, and of the single analysis for the other three agents.
Thm_C12_ScoreOfFinalText ==
    \A k \in 1..Len(validation_results) :
        LET r == validation_results[k]
        IN  IF r.agent = "Balance Sheet"
            THEN /\ r.compliance_score = ReferenceScore(r.refined_analysis)
                 /\ \A c \in CallsOf("Balance Sheet") :
                       completions[c].prompt.template = "reflection" =>
                          r.compliance_score = ReferenceScore(completions[c].value)
            ELSE r.compliance_score = ReferenceScore(r.analysis)

\* C12 witness: a Balance Sheet result whose initial analysis would score 20
\* and whose refined analysis scores 100, next to a P&L result scored 45.
Wit_C12_RefinedDecides ==
    /\ pc = "done"
    /\ Len(validation_results) = 2
    /\ validation_results[1].agent = "Balance Sheet"
    /\ ReferenceScore(validation_results[1].initial_analysis) = 20
    /\ ReferenceScore(validation_results[1].refined_analysis) = 100
    /\ validation_results[1].compliance_score = 100
    /\ validation_results[2].agent = "Profit & Loss"
    /\ validation_results[2].compliance_score = 45

(***************************************************************************)
(* Implicit property of the score heuristic (checked under ScoreSpec)      *)
(***************************************************************************)

\* C13: each marker is tested for presence, and the negative markers
\* "incomplete", "non-compliant" and "inadequate" each contain a positive
\* marker, so for every text the unclamped value 50 + 10 * positive_count
\* - 15 * negative_count lies in 5..100 and is a multiple of 5: the clamp
\* changes nothing and no text scores 0.
Thm_C13_ClampNeverActs ==
    returned =>
        LET unclamped == 50 + 10 * positive_count - 15 * negative_count
        IN  /\ positive_count \in 0..5
            /\ negative_count \in 0..5
            /\ positive_count >= negative_count - 2
            /\ unclamped \in 5..100
            /\ unclamped % 5 = 0
            /\ score = unclamped
            /\ score # 0

\* C13 witness: a text with all five negative markers has been scored; the
\* three positive markers they contain bring the score to 50 + 30 - 75 = 5.
Wit_C13_LowestScore ==
    /\ returned
    /\ DistinctPresent(negative_indicators, analysis_text) = 5
    /\ positive_count = 3
    /\ negative_count = 5
    /\ score = 5
====
